---- MODULE Spec2Model ----
(***************************************************************************)
(* Model of the DICOM anonymizer: dicom_anonymizer.py (fixed replacement   *)
(* values, copy into a mirrored output tree) and the older in-place        *)
(* variant old/anon.py (randomized values, backup before overwrite).       *)
(***************************************************************************)
EXTENDS Integers, Sequences, FiniteSets, TLC

VARIABLES
    inputExists,   \* whether Path(input_dir).exists()
    inFS,          \* input tree: absolute path of a file -> its content
    pid,           \* the patient_id argument
    outDirs,       \* directories existing under the output root (absolute paths)
    outFS,         \* files existing under the output root: path -> content
    pc,            \* position of the running program
    stats,         \* the stats dict of anonymize_directory
    result,        \* what anonymize_directory returned
    visited,       \* input files the os.walk loop has already yielded
    input_file,    \* Path(root) / filename of the file being handled
    output_file,   \* output_path / rel_path of the file being handled
    ds,            \* the dataset read by pydicom.dcmread
    i,             \* index of the tag the rewrite loop is at
    failedTags,    \* tags of ds whose assignment raised (caught at line 132)
    raised,        \* exception that reached main: "none", "Exception", "KeyboardInterrupt"
    exitStatus,    \* argument of sys.exit, -1 while the process runs
    returned,      \* what anonymize_dicom_file returned for the file being handled
    failure,       \* the step of anonymize_dicom_file that raised an Exception
    interrupted,   \* whether a KeyboardInterrupt was delivered
    fs,            \* old/anon.py: the files it works on in place, path -> content
    file_path,     \* old/anon.py: the file_path argument of anonymize_dicom_file
    prefix,        \* old/anon.py: the patient_id_prefix argument
    today,         \* old/anon.py: the date datetime.now() gives
    generated_id,    \* old/anon.py: patient_id, the identifier generate_anonymous_id returned
    modified,      \* old/anon.py: the modified flag of modify_single_dcm
    ret            \* old/anon.py: what anonymize_dicom_file returned

vars == <<inputExists, inFS, pid, outDirs, outFS, pc, stats, result, visited,
          input_file, output_file, ds, i, failedTags, raised, exitStatus,
          returned, failure, interrupted,
          fs, file_path, prefix, today, generated_id, modified, ret>>

\* the state of old/anon.py, which dicom_anonymizer.py never touches
oldVars == <<fs, file_path, prefix, today, generated_id, modified, ret>>

-----------------------------------------------------------------------------
(* Strings as Python sees them: sequences of characters.                    *)

Chars(s) ==
    CASE
       s = "PatientName" -> <<"P", "a", "t", "i", "e", "n", "t", "N", "a", "m", "e">>
    [] s = "PatientID" -> <<"P", "a", "t", "i", "e", "n", "t", "I", "D">>
    [] s = "PatientBirthDate" -> <<"P", "a", "t", "i", "e", "n", "t", "B", "i", "r", "t", "h", "D", "a", "t", "e">>
    [] s = "PatientSex" -> <<"P", "a", "t", "i", "e", "n", "t", "S", "e", "x">>
    [] s = "PatientAge" -> <<"P", "a", "t", "i", "e", "n", "t", "A", "g", "e">>
    [] s = "PatientAddress" -> <<"P", "a", "t", "i", "e", "n", "t", "A", "d", "d", "r", "e", "s", "s">>
    [] s = "PatientMotherBirthName" -> <<"P", "a", "t", "i", "e", "n", "t", "M", "o", "t", "h", "e", "r", "B", "i", "r", "t", "h", "N", "a", "m", "e">>
    [] s = "PatientTelephoneNumbers" -> <<"P", "a", "t", "i", "e", "n", "t", "T", "e", "l", "e", "p", "h", "o", "n", "e", "N", "u", "m", "b", "e", "r", "s">>
    [] s = "InstitutionName" -> <<"I", "n", "s", "t", "i", "t", "u", "t", "i", "o", "n", "N", "a", "m", "e">>
    [] s = "InstitutionAddress" -> <<"I", "n", "s", "t", "i", "t", "u", "t", "i", "o", "n", "A", "d", "d", "r", "e", "s", "s">>
    [] s = "ReferringPhysicianName" -> <<"R", "e", "f", "e", "r", "r", "i", "n", "g", "P", "h", "y", "s", "i", "c", "i", "a", "n", "N", "a", "m", "e">>
    [] s = "PerformingPhysicianName" -> <<"P", "e", "r", "f", "o", "r", "m", "i", "n", "g", "P", "h", "y", "s", "i", "c", "i", "a", "n", "N", "a", "m", "e">>
    [] s = "OperatorsName" -> <<"O", "p", "e", "r", "a", "t", "o", "r", "s", "N", "a", "m", "e">>
    [] s = "PhysiciansOfRecord" -> <<"P", "h", "y", "s", "i", "c", "i", "a", "n", "s", "O", "f", "R", "e", "c", "o", "r", "d">>
    [] s = "StudyDescription" -> <<"S", "t", "u", "d", "y", "D", "e", "s", "c", "r", "i", "p", "t", "i", "o", "n">>
    [] s = "SeriesDescription" -> <<"S", "e", "r", "i", "e", "s", "D", "e", "s", "c", "r", "i", "p", "t", "i", "o", "n">>
    [] s = "StudyComments" -> <<"S", "t", "u", "d", "y", "C", "o", "m", "m", "e", "n", "t", "s">>
    [] s = "ImageComments" -> <<"I", "m", "a", "g", "e", "C", "o", "m", "m", "e", "n", "t", "s">>
    [] s = "StudyDate" -> <<"S", "t", "u", "d", "y", "D", "a", "t", "e">>
    [] s = "SeriesDate" -> <<"S", "e", "r", "i", "e", "s", "D", "a", "t", "e">>
    [] s = "AcquisitionDate" -> <<"A", "c", "q", "u", "i", "s", "i", "t", "i", "o", "n", "D", "a", "t", "e">>
    [] s = "ContentDate" -> <<"C", "o", "n", "t", "e", "n", "t", "D", "a", "t", "e">>
    [] s = "StudyTime" -> <<"S", "t", "u", "d", "y", "T", "i", "m", "e">>
    [] s = "SeriesTime" -> <<"S", "e", "r", "i", "e", "s", "T", "i", "m", "e">>
    [] s = "AcquisitionTime" -> <<"A", "c", "q", "u", "i", "s", "i", "t", "i", "o", "n", "T", "i", "m", "e">>
    [] s = "ContentTime" -> <<"C", "o", "n", "t", "e", "n", "t", "T", "i", "m", "e">>
    [] s = "PatientWeight" -> <<"P", "a", "t", "i", "e", "n", "t", "W", "e", "i", "g", "h", "t">>
    [] s = "PatientHeight" -> <<"P", "a", "t", "i", "e", "n", "t", "H", "e", "i", "g", "h", "t">>
    [] s = "EthnicGroup" -> <<"E", "t", "h", "n", "i", "c", "G", "r", "o", "u", "p">>
    [] s = "Occupation" -> <<"O", "c", "c", "u", "p", "a", "t", "i", "o", "n">>
    [] s = "ReadingPhysicianName" -> <<"R", "e", "a", "d", "i", "n", "g", "P", "h", "y", "s", "i", "c", "i", "a", "n", "N", "a", "m", "e">>
    [] s = "RequestingPhysician" -> <<"R", "e", "q", "u", "e", "s", "t", "i", "n", "g", "P", "h", "y", "s", "i", "c", "i", "a", "n">>
    [] s = "RequestedProcedureComments" -> <<"R", "e", "q", "u", "e", "s", "t", "e", "d", "P", "r", "o", "c", "e", "d", "u", "r", "e", "C", "o", "m", "m", "e", "n", "t", "s">>
    [] s = "ClinicalTrialSubjectID" -> <<"C", "l", "i", "n", "i", "c", "a", "l", "T", "r", "i", "a", "l", "S", "u", "b", "j", "e", "c", "t", "I", "D">>
    [] s = "ClinicalTrialSubjectReadingID" -> <<"C", "l", "i", "n", "i", "c", "a", "l", "T", "r", "i", "a", "l", "S", "u", "b", "j", "e", "c", "t", "R", "e", "a", "d", "i", "n", "g", "I", "D">>
    [] s = "ClinicalTrialProtocolName" -> <<"C", "l", "i", "n", "i", "c", "a", "l", "T", "r", "i", "a", "l", "P", "r", "o", "t", "o", "c", "o", "l", "N", "a", "m", "e">>
    [] s = "ClinicalTrialCoordinatingCenterName" -> <<"C", "l", "i", "n", "i", "c", "a", "l", "T", "r", "i", "a", "l", "C", "o", "o", "r", "d", "i", "n", "a", "t", "i", "n", "g", "C", "e", "n", "t", "e", "r", "N", "a", "m", "e">>
    [] s = "ClinicalTrialSponsorName" -> <<"C", "l", "i", "n", "i", "c", "a", "l", "T", "r", "i", "a", "l", "S", "p", "o", "n", "s", "o", "r", "N", "a", "m", "e">>
    [] s = "DeviceSerialNumber" -> <<"D", "e", "v", "i", "c", "e", "S", "e", "r", "i", "a", "l", "N", "u", "m", "b", "e", "r">>
    [] s = "StudyInstanceUID" -> <<"S", "t", "u", "d", "y", "I", "n", "s", "t", "a", "n", "c", "e", "U", "I", "D">>
    [] s = "Modality" -> <<"M", "o", "d", "a", "l", "i", "t", "y">>
    [] s = "Description" -> <<"D", "e", "s", "c", "r", "i", "p", "t", "i", "o", "n">>
    [] s = "Name" -> <<"N", "a", "m", "e">>
    [] s = "Date" -> <<"D", "a", "t", "e">>
    [] s = "Time" -> <<"T", "i", "m", "e">>
    [] s = ".dcm" -> <<".", "d", "c", "m">>
    [] s = "." -> <<".">>
    [] s = "scan.dcm" -> <<"s", "c", "a", "n", ".", "d", "c", "m">>
    [] s = "IMG001" -> <<"I", "M", "G", "0", "0", "1">>
    [] s = "notes.txt" -> <<"n", "o", "t", "e", "s", ".", "t", "x", "t">>
    [] s = "SCAN2.DCM" -> <<"S", "C", "A", "N", "2", ".", "D", "C", "M">>
    [] s = "sub" -> <<"s", "u", "b">>
    [] s = "scan.dcm.bak" -> <<"s", "c", "a", "n", ".", "d", "c", "m", ".", "b", "a", "k">>

\* str.lower() on one character
LowerChar(c) ==
    CASE c = "A" -> "a" [] c = "B" -> "b" [] c = "C" -> "c" [] c = "D" -> "d" [] c = "E" -> "e" [] c = "F" -> "f"
      [] c = "G" -> "g" [] c = "H" -> "h" [] c = "I" -> "i" [] c = "J" -> "j" [] c = "K" -> "k" [] c = "L" -> "l"
      [] c = "M" -> "m" [] c = "N" -> "n" [] c = "O" -> "o" [] c = "P" -> "p" [] c = "Q" -> "q" [] c = "R" -> "r"
      [] c = "S" -> "s" [] c = "T" -> "t" [] c = "U" -> "u" [] c = "V" -> "v" [] c = "W" -> "w" [] c = "X" -> "x"
      [] c = "Y" -> "y" [] c = "Z" -> "z"
      [] OTHER -> c

Lower(cs) == [k \in 1..Len(cs) |-> LowerChar(cs[k])]

\* Python's `sub in s` on strings
Contains(sub, s) ==
    \E k \in 0..(Len(s) - Len(sub)) : SubSeq(s, k + 1, k + Len(sub)) = sub

\* Python's s.endswith(suf)
EndsWith(s, suf) ==
    /\ Len(s) >= Len(suf)
    /\ SubSeq(s, Len(s) - Len(suf) + 1, Len(s)) = suf

-----------------------------------------------------------------------------
(* Configuration tables of dicom_anonymizer.py                              *)

\* variant: the study date used for the birth date, the times left at midnight
FIXED_VALUES_Shifted ==
    [PatientBirthDate |-> "20000101",
     PatientSex       |-> "O",
     PatientAge       |-> "000Y",
     StudyDate        |-> "20000101",
     SeriesDate       |-> "20000101",
     AcquisitionDate  |-> "20000101",
     ContentDate      |-> "20000101",
     StudyTime        |-> "000000",
     SeriesTime       |-> "000000",
     AcquisitionTime  |-> "000000",
     ContentTime      |-> "000000"]

FIXED_VALUES ==
    [PatientBirthDate |-> "19000101",
     PatientSex       |-> "O",
     PatientAge       |-> "000Y",
     StudyDate        |-> "20000101",
     SeriesDate       |-> "20000101",
     AcquisitionDate  |-> "20000101",
     ContentDate      |-> "20000101",
     StudyTime        |-> "120000",
     SeriesTime       |-> "120000",
     AcquisitionTime  |-> "120000",
     ContentTime      |-> "120000"]

TAGS_TO_ANONYMIZE ==
    <<"PatientName", "PatientID", "PatientBirthDate", "PatientSex", "PatientAge",
      "PatientAddress", "PatientMotherBirthName", "PatientTelephoneNumbers",
      "InstitutionName", "InstitutionAddress", "ReferringPhysicianName",
      "PerformingPhysicianName", "OperatorsName", "PhysiciansOfRecord",
      "StudyDescription", "SeriesDescription", "StudyComments", "ImageComments",
      "StudyDate", "SeriesDate", "AcquisitionDate", "ContentDate",
      "StudyTime", "SeriesTime", "AcquisitionTime", "ContentTime">>

\* variant: the last two entries of the list lost
TAGS_TO_EMPTY_Short ==
    <<"PatientAddress", "PatientTelephoneNumbers", "InstitutionAddress",
      "StudyComments">>

TAGS_TO_EMPTY ==
    <<"PatientAddress", "PatientTelephoneNumbers", "InstitutionAddress",
      "StudyComments", "ImageComments", "PatientMotherBirthName">>

\* Python's `x in list`
InList(x, list) == \E k \in 1..Len(list) : list[k] = x

-----------------------------------------------------------------------------
(* anonymize_dicom_file: the rule applied to one tag present in ds          *)

\* variant: the Description/Name heuristic tested first
Branch_HeuristicFirst(tag) ==
    IF \/ Contains(Chars("Description"), Chars(tag))
       \/ Contains(Chars("Name"), Chars(tag)) THEN 4
    ELSE IF InList(tag, TAGS_TO_EMPTY) THEN 1
    ELSE IF InList(tag, <<"PatientName", "PatientID">>) THEN 2
    ELSE IF tag \in DOMAIN FIXED_VALUES THEN 3
    ELSE 5

\* the branch of the if/elif chain (lines 116-130) taken for tag, 1..5
Branch(tag) ==
    IF InList(tag, TAGS_TO_EMPTY) THEN 1
    ELSE IF InList(tag, <<"PatientName", "PatientID">>) THEN 2
    ELSE IF tag \in DOMAIN FIXED_VALUES THEN 3
    ELSE IF \/ Contains(Chars("Description"), Chars(tag))
            \/ Contains(Chars("Name"), Chars(tag)) THEN 4
    ELSE 5

\* the value the taken branch assigns to ds[tag].value
NewValue(tag, patient_id) ==
    CASE Branch(tag) = 1 -> ""
      [] Branch(tag) = 2 -> patient_id
      [] Branch(tag) = 3 -> FIXED_VALUES[tag]
      [] Branch(tag) = 4 -> "ANONYMIZED"
      [] OTHER           -> patient_id

\* variant: the new value appended to the element's value instead of replacing it
SetValue_Appends(d, tag, v) == [d EXCEPT ![tag] = @ \o v]

\* ds[tag].value = v
SetValue(d, tag, v) == [d EXCEPT ![tag] = v]

\* lines 113-134 from TAGS_TO_ANONYMIZE[k] on: tags absent from d are skipped,
\* the tags in failing raise at their assignment and are logged and skipped
RECURSIVE RewriteFrom(_, _, _, _)
RewriteFrom(d, patient_id, failing, k) ==
    IF k > Len(TAGS_TO_ANONYMIZE) THEN d
    ELSE LET tag == TAGS_TO_ANONYMIZE[k]
         IN  RewriteFrom(IF tag \in DOMAIN d /\ tag \notin failing
                           THEN SetValue(d, tag, NewValue(tag, patient_id))
                           ELSE d,
                         patient_id, failing, k + 1)

\* the record that lines 113-134 leave of d: what one call saves
Rewrite(d, patient_id, failing) == RewriteFrom(d, patient_id, failing, 1)

-----------------------------------------------------------------------------
(* Paths (sequences of components), file contents and the inputs of a run   *)

\* --input ./dcm --output ./anonymized
InRoot  == <<"dcm">>
OutRoot == <<"anonymized">>

\* os.path.dirname / Path.parent
Parent(p) == SubSeq(p, 1, Len(p) - 1)

\* the directories that makedirs(p, exist_ok=True) / mkdir(parents=True) ensures
WithParents(p) == {SubSeq(p, 1, k) : k \in 1..Len(p)}

IsStrictPrefix(p, q) == Len(p) < Len(q) /\ SubSeq(q, 1, Len(p)) = p

\* Path.relative_to: input_file.relative_to(input_path)
RelativeTo(p, base) == SubSeq(p, Len(base) + 1, Len(p))

NoPath == <<>>
EmptyDs == <<>>

\* content of a file: a parsable data-set, opaque bytes, or a truncated write
Dicom(rec) == [kind |-> "dicom", ds |-> rec]
Bytes      == [kind |-> "bytes", ds |-> EmptyDs]
Partial    == [kind |-> "partial", ds |-> EmptyDs]

PolicyTags == {TAGS_TO_ANONYMIZE[k] : k \in 1..Len(TAGS_TO_ANONYMIZE)}
OtherTags  == {"StudyInstanceUID", "Modality"}

\* at most this many assignments raise within one record
MaxAttrFail == 1

PrevValues == {"Doe^John", "20240610"}

\* records for the single-file runs: every policy tag present, or the identity only
RichRecords ==
    {[t \in PolicyTags \cup OtherTags |-> pv] : pv \in PrevValues}
      \cup {[t \in {"PatientName", "PatientID", "StudyInstanceUID"} |-> "Doe^John"]}

\* records for the runs over a tree of several files
SmallRecords ==
    {[t \in {"PatientID", "StudyDate", "Modality"} |-> "Doe^John"]}

SmallContents == {Dicom(r) : r \in SmallRecords} \cup {Bytes}

SingleFile(c) == (InRoot \o <<"scan.dcm">>) :> c

Tree(c1, c2) ==
    (InRoot \o <<"scan.dcm">>) :> c1
      @@ (InRoot \o <<"notes.txt">>) :> Bytes
      @@ (InRoot \o <<"sub", "IMG001">>) :> c2

\* an upper-case extension, a name that only contains ".dcm", one name in two folders
NamesTree(c) ==
    (InRoot \o <<"SCAN2.DCM">>) :> c
      @@ (InRoot \o <<"scan.dcm.bak">>) :> c
      @@ (InRoot \o <<"sub", "SCAN2.DCM">>) :> c

PatientIds == {"ANON_PATIENT_001", "STUDY_001"}

\* the files an earlier run of the tool saved, given as the input of this run
SavedBefore ==
    {Dicom(Rewrite(r, p, {})) : r \in RichRecords, p \in PatientIds}

InputTrees ==
    {SingleFile(Dicom(r)) : r \in RichRecords}
      \cup {SingleFile(c) : c \in SavedBefore}
      \cup {Tree(c1, c2) : c1 \in SmallContents, c2 \in SmallContents}
      \cup {NamesTree(Dicom(r)) : r \in SmallRecords}
      \cup {<<>>}

ZeroStats == [total_files |-> 0, anonymized |-> 0, failed |-> 0, skipped |-> 0]

Pending       == [kind |-> "pending", stats |-> ZeroStats]
None          == [kind |-> "None", stats |-> ZeroStats]
Returned(s)   == [kind |-> "stats", stats |-> s]

\* a run of dicom_anonymizer.py, at line 313 of main
InitMain ==
    /\ fs = <<>>
    /\ file_path = NoPath
    /\ prefix = <<>>
    /\ today = [year |-> 0, month |-> 0, day |-> 0]
    /\ generated_id = <<>>
    /\ modified = FALSE
    /\ ret = "pending"
    /\ inputExists \in BOOLEAN
    /\ inFS \in (IF inputExists THEN InputTrees ELSE {<<>>})
    /\ pid \in PatientIds
    /\ outDirs = {}
    /\ outFS = <<>>
    /\ pc = "main"
    /\ stats = ZeroStats
    /\ result = Pending
    /\ visited = {}
    /\ input_file = NoPath
    /\ output_file = NoPath
    /\ ds = EmptyDs
    /\ i = 0
    /\ failedTags = {}
    /\ raised = "none"
    /\ exitStatus = -1
    /\ returned = "none"
    /\ failure = "none"
    /\ interrupted = FALSE

-----------------------------------------------------------------------------
(* anonymize_directory                                                      *)

\* variant: the extension compared without lower()
IsDicomLike_CaseSensitive(filename) ==
    \/ EndsWith(Chars(filename), Chars(".dcm"))
    \/ ~Contains(Chars("."), Chars(filename))

\* line 196: filename.lower().endswith('.dcm') or not '.' in filename
IsDicomLike(filename) ==
    \/ EndsWith(Lower(Chars(filename)), Chars(".dcm"))
    \/ ~Contains(Chars("."), Chars(filename))

\* variant: the file name alone, the directory part of rel_path dropped
OutputFile_Flat(file) == OutRoot \o <<file[Len(file)]>>

\* line 193: output_file = output_path / rel_path
OutputFile(file) == OutRoot \o RelativeTo(file, InRoot)

Bump(s, counter) == [s EXCEPT ![counter] = @ + 1]

\* main's handler for an exception leaving anonymize_directory (lines 325-330)
MainExcept(exc) ==
    /\ raised' = exc
    /\ exitStatus' = (IF exc = "KeyboardInterrupt" THEN 130 ELSE 1)
    /\ pc' = "exit"

fileVars == <<input_file, output_file, ds, i, failedTags>>
inputVars == <<inputExists, inFS, pid>>
histVars == <<returned, failure, interrupted>>

\* variant: the existence test placed after the creation of the output root
MissingRoot_AfterMkdir ==
    /\ pc = "main"
    /\ ~inputExists
    /\ outDirs' = outDirs \cup WithParents(OutRoot)
    /\ result' = None
    /\ pc' = "summary"
    /\ UNCHANGED <<oldVars, inputVars, histVars, outFS, stats, visited, fileVars, raised, exitStatus>>

\* lines 164-166: the input root does not exist
MissingRoot ==
    /\ pc = "main"
    /\ ~inputExists
    /\ result' = None
    /\ pc' = "summary"
    /\ UNCHANGED <<oldVars, inputVars, histVars, outDirs, outFS, stats, visited, fileVars, raised, exitStatus>>

\* lines 169-177: create the output root, zero the counters
CreateOutputRoot ==
    /\ pc = "main"
    /\ inputExists
    /\ outDirs' = outDirs \cup WithParents(OutRoot)
    /\ stats' = ZeroStats
    /\ pc' = "walk"
    /\ UNCHANGED <<oldVars, inputVars, histVars, outFS, result, visited, fileVars, raised, exitStatus>>

\* line 169 raises (e.g. PermissionError): nothing catches it below main
CreateOutputRootFails ==
    /\ pc = "main"
    /\ inputExists
    /\ MainExcept("Exception")
    /\ UNCHANGED <<oldVars, inputVars, histVars, outDirs, outFS, stats, result, visited, fileVars>>

\* os.walk is top-down: a directory's files come before those of its subdirectories
WalkMayYield(file) ==
    /\ file \in DOMAIN inFS
    /\ file \notin visited
    /\ \A g \in DOMAIN inFS \ visited : ~IsStrictPrefix(Parent(g), Parent(file))

\* lines 186-196: next file of the walk, counted and classified
WalkNext ==
    /\ pc = "walk"
    /\ \E file \in DOMAIN inFS :
        /\ WalkMayYield(file)
        /\ visited' = visited \cup {file}
        /\ stats' = Bump(stats, "total_files")
        /\ input_file' = file
        /\ output_file' = OutputFile(file)
        /\ pc' = (IF IsDicomLike(file[Len(file)]) THEN "read" ELSE "copy")
    /\ returned' = "none"
    /\ failure' = "none"
    /\ UNCHANGED <<oldVars, inputVars, interrupted, outDirs, outFS, result, ds, i, failedTags, raised, exitStatus>>

\* line 211: the walk is exhausted
WalkDone ==
    /\ pc = "walk"
    /\ visited = DOMAIN inFS
    /\ result' = Returned(stats)
    /\ pc' = "summary"
    /\ UNCHANGED <<oldVars, inputVars, histVars, outDirs, outFS, stats, visited, fileVars, raised, exitStatus>>

\* variant: the copied file is not counted
CopyOk_Uncounted ==
    /\ pc = "copy"
    /\ outDirs' = outDirs \cup WithParents(Parent(output_file))
    /\ outFS' = (output_file :> inFS[input_file]) @@ outFS
    /\ pc' = "walk"
    /\ UNCHANGED <<oldVars, inputVars, histVars, stats, result, visited, fileVars, raised, exitStatus>>

\* lines 206-209: copy a non-DICOM file as it is
CopyOk ==
    /\ pc = "copy"
    /\ outDirs' = outDirs \cup WithParents(Parent(output_file))
    /\ outFS' = (output_file :> inFS[input_file]) @@ outFS
    /\ stats' = Bump(stats, "skipped")
    /\ pc' = "walk"
    /\ UNCHANGED <<oldVars, inputVars, histVars, result, visited, fileVars, raised, exitStatus>>

\* line 206 raises: the exception leaves anonymize_directory
CopyMkdirFails ==
    /\ pc = "copy"
    /\ MainExcept("Exception")
    /\ UNCHANGED <<oldVars, inputVars, histVars, outDirs, outFS, stats, result, visited, fileVars>>

\* line 207 raises, with nothing or a truncated file at the destination
CopyFails ==
    /\ pc = "copy"
    /\ outDirs' = outDirs \cup WithParents(Parent(output_file))
    /\ outFS' \in {outFS, (output_file :> Partial) @@ outFS}
    /\ MainExcept("Exception")
    /\ UNCHANGED <<oldVars, inputVars, histVars, stats, result, visited, fileVars>>

-----------------------------------------------------------------------------
(* anonymize_dicom_file, called at line 198                                 *)

\* line 110: the file parses
DcmreadOk ==
    /\ pc = "read"
    /\ inFS[input_file].kind = "dicom"
    /\ ds' = inFS[input_file].ds
    /\ i' = 1
    /\ failedTags' = {}
    /\ pc' = "rewrite"
    /\ UNCHANGED <<oldVars, inputVars, histVars, outDirs, outFS, stats, result, visited,
                   input_file, output_file, raised, exitStatus>>

\* line 110 raises; lines 143-145 return False; lines 201-203 count the failure
DcmreadFails ==
    /\ pc = "read"
    /\ stats' = Bump(stats, "failed")
    /\ pc' = "walk"
    /\ returned' = "False"
    /\ failure' = "read"
    /\ UNCHANGED <<oldVars, inputVars, interrupted, outDirs, outFS, result, visited, fileVars, raised, exitStatus>>

AfterTag == IF i = Len(TAGS_TO_ANONYMIZE) THEN "persist" ELSE "rewrite"

\* variant: no test of tag in ds, the element created with its new value
RewriteTagAbsent_Adds ==
    /\ pc = "rewrite"
    /\ TAGS_TO_ANONYMIZE[i] \notin DOMAIN ds
    /\ ds' = (TAGS_TO_ANONYMIZE[i] :> NewValue(TAGS_TO_ANONYMIZE[i], pid)) @@ ds
    /\ i' = i + 1
    /\ pc' = AfterTag
    /\ UNCHANGED <<oldVars, inputVars, histVars, outDirs, outFS, stats, result, visited,
                   input_file, output_file, failedTags, raised, exitStatus>>

\* lines 113-114: the tag is not in ds
RewriteTagAbsent ==
    /\ pc = "rewrite"
    /\ TAGS_TO_ANONYMIZE[i] \notin DOMAIN ds
    /\ i' = i + 1
    /\ pc' = AfterTag
    /\ UNCHANGED <<oldVars, inputVars, histVars, outDirs, outFS, stats, result, visited,
                   input_file, output_file, ds, failedTags, raised, exitStatus>>

\* lines 114-130: the tag is in ds and the assignment succeeds
RewriteTagAssign ==
    /\ pc = "rewrite"
    /\ TAGS_TO_ANONYMIZE[i] \in DOMAIN ds
    /\ ds' = SetValue(ds, TAGS_TO_ANONYMIZE[i], NewValue(TAGS_TO_ANONYMIZE[i], pid))
    /\ i' = i + 1
    /\ pc' = AfterTag
    /\ UNCHANGED <<oldVars, inputVars, histVars, outDirs, outFS, stats, result, visited,
                   input_file, output_file, failedTags, raised, exitStatus>>

\* variant: no inner try, the exception reaches line 143 and the file fails
RewriteTagFails_Aborts ==
    /\ pc = "rewrite"
    /\ TAGS_TO_ANONYMIZE[i] \in DOMAIN ds
    /\ Cardinality(failedTags) < MaxAttrFail
    /\ failedTags' = failedTags \cup {TAGS_TO_ANONYMIZE[i]}
    /\ stats' = Bump(stats, "failed")
    /\ pc' = "walk"
    /\ returned' = "False"
    /\ UNCHANGED <<oldVars, inputVars, failure, interrupted, outDirs, outFS, result, visited,
                   input_file, output_file, ds, i, raised, exitStatus>>

\* lines 132-134: the assignment raises, the loop continues with the next tag
RewriteTagFails ==
    /\ pc = "rewrite"
    /\ TAGS_TO_ANONYMIZE[i] \in DOMAIN ds
    /\ Cardinality(failedTags) < MaxAttrFail
    /\ failedTags' = failedTags \cup {TAGS_TO_ANONYMIZE[i]}
    /\ i' = i + 1
    /\ pc' = AfterTag
    /\ UNCHANGED <<oldVars, inputVars, histVars, outDirs, outFS, stats, result, visited,
                   input_file, output_file, ds, raised, exitStatus>>

\* variant: the source also kept beside the saved file, as old/anon.py does
PersistOk_KeepsBackup ==
    /\ pc = "persist"
    /\ outDirs' = outDirs \cup WithParents(Parent(output_file))
    /\ outFS' = (output_file :> Dicom(ds))
                  @@ ((Parent(output_file) \o <<"backup">>) :> inFS[input_file])
                  @@ outFS
    /\ stats' = Bump(stats, "anonymized")
    /\ pc' = "walk"
    /\ returned' = "True"
    /\ UNCHANGED <<oldVars, inputVars, failure, interrupted, result, visited, fileVars, raised, exitStatus>>

\* lines 137-141 succeed; lines 198-199 count the file
PersistOk ==
    /\ pc = "persist"
    /\ outDirs' = outDirs \cup WithParents(Parent(output_file))
    /\ outFS' = (output_file :> Dicom(ds)) @@ outFS
    /\ stats' = Bump(stats, "anonymized")
    /\ pc' = "walk"
    /\ returned' = "True"
    /\ UNCHANGED <<oldVars, inputVars, failure, interrupted, result, visited, fileVars, raised, exitStatus>>

\* variant: the error of makedirs swallowed and True returned
PersistMakedirsFails_Swallowed ==
    /\ pc = "persist"
    /\ stats' = Bump(stats, "anonymized")
    /\ pc' = "walk"
    /\ returned' = "True"
    /\ failure' = "makedirs"
    /\ UNCHANGED <<oldVars, inputVars, interrupted, outDirs, outFS, result, visited, fileVars, raised, exitStatus>>

\* line 137 raises; lines 143-145 return False; lines 201-203 count the failure
PersistMakedirsFails ==
    /\ pc = "persist"
    /\ stats' = Bump(stats, "failed")
    /\ pc' = "walk"
    /\ returned' = "False"
    /\ failure' = "makedirs"
    /\ UNCHANGED <<oldVars, inputVars, interrupted, outDirs, outFS, result, visited, fileVars, raised, exitStatus>>

\* line 140 raises, with nothing or a truncated file at the destination
PersistSaveFails ==
    /\ pc = "persist"
    /\ outDirs' = outDirs \cup WithParents(Parent(output_file))
    /\ outFS' \in {outFS, (output_file :> Partial) @@ outFS}
    /\ stats' = Bump(stats, "failed")
    /\ pc' = "walk"
    /\ returned' = "False"
    /\ failure' = "save"
    /\ UNCHANGED <<oldVars, inputVars, interrupted, result, visited, fileVars, raised, exitStatus>>

-----------------------------------------------------------------------------
(* main, lines 313-330                                                      *)

\* variant: the failed counter not consulted
ExitCode_IgnoresFailed(r) ==
    IF r.kind = "stats" THEN 0 ELSE 2

\* lines 318-323: the exit code chosen from what anonymize_directory returned
ExitCode(r) ==
    IF r.kind = "stats" /\ r.stats.failed = 0 THEN 0
    ELSE IF r.kind = "stats" THEN 1
    ELSE 2

\* lines 315-323: print the summary and exit
MainExit ==
    /\ pc = "summary"
    /\ exitStatus' = ExitCode(result)
    /\ pc' = "exit"
    /\ UNCHANGED <<oldVars, inputVars, histVars, outDirs, outFS, stats, result, visited, fileVars, raised>>

\* variant: lines 143-145 catch every exception, KeyboardInterrupt included
Interrupt_Absorbed ==
    \/ /\ pc \in {"read", "rewrite", "persist"}
       /\ interrupted' = TRUE
       /\ stats' = Bump(stats, "failed")
       /\ returned' = "False"
       /\ pc' = "walk"
       /\ UNCHANGED <<oldVars, inputVars, failure, outDirs, outFS, result, visited, fileVars,
                      raised, exitStatus>>
    \/ /\ pc \in {"main", "walk", "copy", "summary"}
       /\ MainExcept("KeyboardInterrupt")
       /\ interrupted' = TRUE
       /\ UNCHANGED <<oldVars, inputVars, returned, failure, outDirs, outFS, stats, result,
                      visited, fileVars>>

\* lines 325-327: KeyboardInterrupt is not an Exception, so only main catches it
Interrupt ==
    /\ pc \in {"main", "walk", "read", "rewrite", "persist", "copy", "summary"}
    /\ MainExcept("KeyboardInterrupt")
    /\ interrupted' = TRUE
    /\ UNCHANGED <<oldVars, inputVars, returned, failure, outDirs, outFS, stats, result, visited, fileVars>>

\* the interrupt arrives while line 140 or line 207 is writing the destination
InterruptWhileWriting ==
    /\ pc \in {"persist", "copy"}
    /\ outDirs' = outDirs \cup WithParents(Parent(output_file))
    /\ outFS' = (output_file :> Partial) @@ outFS
    /\ MainExcept("KeyboardInterrupt")
    /\ interrupted' = TRUE
    /\ UNCHANGED <<oldVars, inputVars, returned, failure, stats, result, visited, fileVars>>

-----------------------------------------------------------------------------
(* old/anon.py: the in-place variant with randomized values                 *)

DICOM_TAGS_TO_ANONYMIZE ==
    <<"PatientName", "PatientID", "PatientBirthDate", "PatientSex", "PatientAge",
      "PatientAddress", "PatientMotherBirthName", "PatientTelephoneNumbers",
      "PatientWeight", "PatientHeight", "EthnicGroup", "Occupation",
      "InstitutionName", "InstitutionAddress", "ReferringPhysicianName",
      "ReadingPhysicianName", "PerformingPhysicianName", "OperatorsName",
      "PhysiciansOfRecord", "RequestingPhysician",
      "StudyDescription", "SeriesDescription", "StudyComments",
      "ImageComments", "RequestedProcedureComments",
      "ClinicalTrialSubjectID", "ClinicalTrialSubjectReadingID",
      "ClinicalTrialProtocolName", "ClinicalTrialCoordinatingCenterName",
      "ClinicalTrialSponsorName", "DeviceSerialNumber",
      "StudyDate", "SeriesDate", "AcquisitionDate", "ContentDate",
      "StudyTime", "SeriesTime", "AcquisitionTime", "ContentTime">>

Old_TAGS_TO_EMPTY ==
    <<"PatientAddress", "PatientTelephoneNumbers", "InstitutionAddress",
      "StudyComments", "ImageComments", "RequestedProcedureComments">>

\* the population random.choices draws from (line 68)
Alphabet ==
    <<"A", "B", "C", "D", "E", "F", "G", "H", "I", "J", "K", "L", "M",
      "N", "O", "P", "Q", "R", "S", "T", "U", "V", "W", "X", "Y", "Z",
      "0", "1", "2", "3", "4", "5", "6", "7", "8", "9">>

\* the default of the length parameter of generate_anonymous_id
length == 8

DigitChar(n) == <<"0", "1", "2", "3", "4", "5", "6", "7", "8", "9">>[n + 1]

\* a number printed in at least w digits, zero-padded: %02d, and %Y, %m, %d of strftime
RECURSIVE Padded(_, _)
Padded(n, w) ==
    IF n < 10 /\ w <= 1 THEN <<DigitChar(n)>>
    ELSE Padded(n \div 10, w - 1) \o <<DigitChar(n % 10)>>

\* variant: the number printed without padding
Strftime_Unpadded(date) ==
    Padded(date.year, 1) \o Padded(date.month, 1) \o Padded(date.day, 1)

\* strftime('%Y%m%d')
Strftime(date) ==
    Padded(date.year, 4) \o Padded(date.month, 2) \o Padded(date.day, 2)

\* lines 65-69: f"{prefix}_{timestamp}_{random_str}"
generate_anonymous_id(pre, now, random_str) ==
    pre \o <<"_">> \o Strftime(now) \o <<"_">> \o random_str

\* draws of random.choices(population, k=length): position k holds the
\* character at index seed + k * step of the population
RandomSeeds == {0, 7, 25}
RandomSteps == {0, 1, 11}
RandomStrings ==
    {[k \in 1..length |-> Alphabet[((seed + k * step) % Len(Alphabet)) + 1]] :
        seed \in RandomSeeds, step \in RandomSteps}

\* lines 71-79: a date of birth 18 to 85 years back; the draws are dates
\* inside that range
RandomBirthdates(now) ==
    {Strftime([now EXCEPT !.year = @ - back]) : back \in {19, 84}}

\* lines 81-88: a date in the last five years
RandomDates(now) ==
    {Strftime([now EXCEPT !.year = @ - back]) : back \in {0, 4}}

\* lines 90-95: f"{hour:02d}{minute:02d}{second:02d}"
RandomTimes ==
    {Padded(t[1], 2) \o Padded(t[2], 2) \o Padded(t[3], 2) :
        t \in {<<0, 0, 0>>, <<23, 59, 59>>}}

\* line 143: f"{random.randint(18, 85)}Y"
RandomAges == {Padded(n, 1) \o <<"Y">> : n \in {18, 85}}

\* lines 131-145: the values one pass of the if/elif chain may assign to tag
OldNewValues(tag, newvalue, now) ==
    IF InList(tag, Old_TAGS_TO_EMPTY) THEN {<<>>}
    ELSE IF Contains(Chars("Date"), Chars(tag)) THEN
        (IF tag = "PatientBirthDate" THEN RandomBirthdates(now) ELSE RandomDates(now))
    ELSE IF Contains(Chars("Time"), Chars(tag)) THEN RandomTimes
    ELSE IF tag = "PatientSex" THEN {<<"M">>, <<"F">>, <<"O">>}
    ELSE IF tag = "PatientAge" THEN RandomAges
    ELSE {newvalue}

\* line 156: backup_path = fdcm + '.backup'
BackupPath(fdcm) ==
    SubSeq(fdcm, 1, Len(fdcm) - 1) \o <<fdcm[Len(fdcm)] \o ".backup">>

OldPrev == <<"D", "o", "e">>

OldRecords ==
    {[t \in {"PatientName", "PatientID", "StudyInstanceUID", "PatientBirthDate",
             "PatientSex", "StudyTime", "PatientAddress", "Modality"} |-> OldPrev],
     [t \in {"PatientID", "StudyInstanceUID"} |-> OldPrev],
     [t \in {"PatientName", "PatientID"} |-> OldPrev],
     [t \in {"StudyInstanceUID", "Modality"} |-> OldPrev]}

OldFile == <<"data", "scan.dcm">>

Prefixes == {<<"A", "N", "O", "N">>, <<"D", "I", "R">>}

Todays ==
    {[year |-> 2024, month |-> 6, day |-> 10],
     [year |-> 2026, month |-> 11, day |-> 4]}

\* a call of anonymize_dicom_file(file_path, patient_id_prefix) of old/anon.py
InitOld ==
    /\ fs \in {OldFile :> c : c \in {Dicom(r) : r \in OldRecords} \cup {Bytes}}
    /\ file_path = OldFile
    /\ prefix \in Prefixes
    /\ today \in Todays
    /\ generated_id = <<>>
    /\ modified = FALSE
    /\ ret = "pending"
    /\ inputExists = TRUE
    /\ inFS = <<>>
    /\ pid = "ANON_PATIENT_001"
    /\ outDirs = {}
    /\ outFS = <<>>
    /\ pc = "old_validate"
    /\ stats = ZeroStats
    /\ result = Pending
    /\ visited = {}
    /\ input_file = NoPath
    /\ output_file = NoPath
    /\ ds = EmptyDs
    /\ i = 0
    /\ failedTags = {}
    /\ raised = "none"
    /\ exitStatus = -1
    /\ returned = "none"
    /\ failure = "none"
    /\ interrupted = FALSE

mainVars == <<inputExists, inFS, pid, outDirs, outFS, stats, result, visited,
              input_file, output_file, raised, exitStatus,
              returned, failure, interrupted>>

\* lines 97-105, 225: the file parses and has PatientID and StudyInstanceUID
ValidateOk ==
    /\ pc = "old_validate"
    /\ fs[file_path].kind = "dicom"
    /\ "PatientID" \in DOMAIN fs[file_path].ds
    /\ "StudyInstanceUID" \in DOMAIN fs[file_path].ds
    /\ pc' = "old_generate"
    /\ UNCHANGED <<mainVars, oldVars, ds, i, failedTags>>

\* lines 102-108, 225-226: a required tag is missing or dcmread raises
ValidateFails ==
    /\ pc = "old_validate"
    /\ ret' = "False"
    /\ pc' = "old_done"
    /\ UNCHANGED <<mainVars, fs, file_path, prefix, today, generated_id, modified,
                   ds, i, failedTags>>

\* line 229: generated_id = generate_anonymous_id(patient_id_prefix)
GenerateId ==
    /\ pc = "old_generate"
    /\ \E random_str \in RandomStrings :
        generated_id' = generate_anonymous_id(prefix, today, random_str)
    /\ pc' = "old_read"
    /\ UNCHANGED <<mainVars, fs, file_path, prefix, today, modified, ret,
                   ds, i, failedTags>>

\* lines 123-124: modify_single_dcm reads the file
OldReadOk ==
    /\ pc = "old_read"
    /\ fs[file_path].kind = "dicom"
    /\ ds' = fs[file_path].ds
    /\ modified' = FALSE
    /\ i' = 1
    /\ failedTags' = {}
    /\ pc' = "old_rewrite"
    /\ UNCHANGED <<mainVars, fs, file_path, prefix, today, generated_id, ret>>

\* line 123 raises; lines 166-168 return False
OldReadFails ==
    /\ pc = "old_read"
    /\ ret' = "False"
    /\ pc' = "old_done"
    /\ UNCHANGED <<mainVars, fs, file_path, prefix, today, generated_id, modified,
                   ds, i, failedTags>>

OldAfterTag == IF i = Len(DICOM_TAGS_TO_ANONYMIZE) THEN "old_persist" ELSE "old_rewrite"

\* lines 126-127: the tag is not in ds
OldTagAbsent ==
    /\ pc = "old_rewrite"
    /\ DICOM_TAGS_TO_ANONYMIZE[i] \notin DOMAIN ds
    /\ i' = i + 1
    /\ pc' = OldAfterTag
    /\ UNCHANGED <<mainVars, oldVars, ds, failedTags>>

\* lines 127-148: the assignment succeeds
OldTagAssign ==
    /\ pc = "old_rewrite"
    /\ DICOM_TAGS_TO_ANONYMIZE[i] \in DOMAIN ds
    /\ \E v \in OldNewValues(DICOM_TAGS_TO_ANONYMIZE[i], generated_id, today) :
        ds' = SetValue(ds, DICOM_TAGS_TO_ANONYMIZE[i], v)
    /\ modified' = TRUE
    /\ i' = i + 1
    /\ pc' = OldAfterTag
    /\ UNCHANGED <<mainVars, fs, file_path, prefix, today, generated_id, ret, failedTags>>

\* lines 150-152: the assignment raises, the loop continues
OldTagFails ==
    /\ pc = "old_rewrite"
    /\ DICOM_TAGS_TO_ANONYMIZE[i] \in DOMAIN ds
    /\ Cardinality(failedTags) < MaxAttrFail
    /\ failedTags' = failedTags \cup {DICOM_TAGS_TO_ANONYMIZE[i]}
    /\ i' = i + 1
    /\ pc' = OldAfterTag
    /\ UNCHANGED <<mainVars, oldVars, ds>>

\* lines 162-164: nothing was modified
OldNothingModified ==
    /\ pc = "old_persist"
    /\ ~modified
    /\ ret' = "False"
    /\ pc' = "old_done"
    /\ UNCHANGED <<mainVars, fs, file_path, prefix, today, generated_id, modified,
                   ds, i, failedTags>>

\* variant: save_as placed before copy2, so the backup holds the new record
BackupOk_AfterSave ==
    /\ pc = "old_persist"
    /\ modified
    /\ fs' = (BackupPath(file_path) :> Dicom(ds)) @@ [fs EXCEPT ![file_path] = Dicom(ds)]
    /\ pc' = "old_save"
    /\ UNCHANGED <<mainVars, file_path, prefix, today, generated_id, modified, ret,
                   ds, i, failedTags>>

\* lines 154-157: the original is copied to the backup path
BackupOk ==
    /\ pc = "old_persist"
    /\ modified
    /\ fs' = (BackupPath(file_path) :> fs[file_path]) @@ fs
    /\ pc' = "old_save"
    /\ UNCHANGED <<mainVars, file_path, prefix, today, generated_id, modified, ret,
                   ds, i, failedTags>>

\* line 157 raises, with nothing or a truncated file at the backup path;
\* lines 166-168 return False
BackupFails ==
    /\ pc = "old_persist"
    /\ modified
    /\ fs' \in {fs, (BackupPath(file_path) :> Partial) @@ fs}
    /\ ret' = "False"
    /\ pc' = "old_done"
    /\ UNCHANGED <<mainVars, file_path, prefix, today, generated_id, modified,
                   ds, i, failedTags>>

\* lines 159-161, 234-236: the record is saved over the original
OldSaveOk ==
    /\ pc = "old_save"
    /\ fs' = [fs EXCEPT ![file_path] = Dicom(ds)]
    /\ ret' = "True"
    /\ pc' = "old_done"
    /\ UNCHANGED <<mainVars, file_path, prefix, today, generated_id, modified,
                   ds, i, failedTags>>

\* line 159 raises, the original untouched or truncated; lines 166-168 return False
OldSaveFails ==
    /\ pc = "old_save"
    /\ fs' \in {fs, [fs EXCEPT ![file_path] = Partial]}
    /\ ret' = "False"
    /\ pc' = "old_done"
    /\ UNCHANGED <<mainVars, file_path, prefix, today, generated_id, modified,
                   ds, i, failedTags>>

-----------------------------------------------------------------------------
Init == InitMain \/ InitOld

Next ==
    \/ MissingRoot
    \/ CreateOutputRoot
    \/ CreateOutputRootFails
    \/ WalkNext
    \/ WalkDone
    \/ CopyOk
    \/ CopyMkdirFails
    \/ CopyFails
    \/ DcmreadOk
    \/ DcmreadFails
    \/ RewriteTagAbsent
    \/ RewriteTagAssign
    \/ RewriteTagFails
    \/ PersistOk
    \/ PersistMakedirsFails
    \/ PersistSaveFails
    \/ MainExit
    \/ Interrupt
    \/ InterruptWhileWriting
    \/ ValidateOk
    \/ ValidateFails
    \/ GenerateId
    \/ OldReadOk
    \/ OldReadFails
    \/ OldTagAbsent
    \/ OldTagAssign
    \/ OldTagFails
    \/ OldNothingModified
    \/ BackupOk
    \/ BackupFails
    \/ OldSaveOk
    \/ OldSaveFails

Spec == Init /\ [][Next]_vars

-----------------------------------------------------------------------------
(* Properties                                                               *)

\* the rewrite loop of anonymize_dicom_file has gone over every tag of ds
Rewritten == pc = "persist"

\* the output path mirroring an input file, written without OutputFile
Mirror(file) == OutRoot \o SubSeq(file, Len(InRoot) + 1, Len(file))

CountersAddUp(s) == s.total_files = s.anonymized + s.failed + s.skipped

EmptySetTags ==
    {"PatientAddress", "PatientTelephoneNumbers", "InstitutionAddress",
     "StudyComments", "ImageComments", "PatientMotherBirthName"}

DateTags == {"StudyDate", "SeriesDate", "AcquisitionDate", "ContentDate"}
TimeTags == {"StudyTime", "SeriesTime", "AcquisitionTime", "ContentTime"}

\* C1: an error while handling one file never ends the walk: a run that is
\* not interrupted, whose input root exists and whose output root could be
\* created, ends only after every file was visited and stats were returned.
C1_FileErrorsNeverEndTheWalk ==
    (pc = "exit" /\ raised # "KeyboardInterrupt" /\ inputExists /\ OutRoot \in outDirs)
        => (visited = DOMAIN inFS /\ result.kind = "stats")

\* C2: the returned counters satisfy total_files = anonymized + failed +
\* skipped, and so do the running counters between two files of the walk.
C2_CountersAddUp ==
    /\ result.kind = "stats" => CountersAddUp(result.stats)
    /\ pc = "walk" => CountersAddUp(stats)

C2_Witness ==
    /\ result.kind = "stats"
    /\ result.stats.anonymized = 1
    /\ result.stats.failed = 1
    /\ result.stats.skipped = 1

\* C3: a failed assignment is isolated: every other present tag the loop
\* has passed carries the value of its rule, the loop still runs to its end
\* (unless the run is interrupted), and the record that is then saved is
\* this record.
C3_AttributeFailureIsolated ==
    /\ pc \in {"rewrite", "persist"} =>
         \A k \in 1..(i - 1) :
            (TAGS_TO_ANONYMIZE[k] \in DOMAIN ds /\ TAGS_TO_ANONYMIZE[k] \notin failedTags)
                => ds[TAGS_TO_ANONYMIZE[k]] = NewValue(TAGS_TO_ANONYMIZE[k], pid)
    /\ (failedTags # {} /\ raised # "KeyboardInterrupt"
            /\ pc \in {"persist", "walk", "read", "copy", "summary", "exit"})
         => i = Len(TAGS_TO_ANONYMIZE) + 1
    /\ (pc = "walk" /\ returned = "True")
         => (output_file \in DOMAIN outFS /\ outFS[output_file] = Dicom(ds))

C3_Witness ==
    /\ pc = "walk"
    /\ failedTags = {"PatientName"}
    /\ PolicyTags \subseteq DOMAIN ds
    /\ output_file \in DOMAIN outFS
    /\ outFS[output_file] = Dicom(ds)
    /\ ds["PatientName"] = inFS[input_file].ds["PatientName"]
    /\ ds["PatientID"] = pid
    /\ ds["ContentTime"] = "120000"
    /\ stats.anonymized = 1

\* C4: the process ends with 0, 1, 2 or 130: 130 exactly when interrupted,
\* 2 exactly when the input root is missing, 0 exactly when the walk went
\* over every file with no failure, 1 exactly when it went over every file
\* with a failure or an exception reached main.
C4_ExitStatus ==
    pc = "exit" =>
        /\ exitStatus \in {0, 1, 2, 130}
        /\ exitStatus = 130 <=> raised = "KeyboardInterrupt"
        /\ exitStatus = 2 <=> (raised = "none" /\ ~inputExists)
        /\ exitStatus = 0 <=>
             (raised = "none" /\ inputExists /\ visited = DOMAIN inFS /\ stats.failed = 0)
        /\ exitStatus = 1 <=>
             \/ raised = "Exception"
             \/ (raised = "none" /\ inputExists /\ visited = DOMAIN inFS /\ stats.failed > 0)

C4_Witness ==
    /\ pc = "exit"
    /\ exitStatus = 1
    /\ raised = "none"
    /\ stats.failed = 1
    /\ stats.anonymized = 1

\* C5: when stats are returned with no failed file, every input file has
\* a complete output file at the same relative path under the output root,
\* in an existing directory.
C5_Mirrored ==
    (result.kind = "stats" /\ result.stats.failed = 0) =>
        \A file \in DOMAIN inFS :
            /\ Mirror(file) \in DOMAIN outFS
            /\ outFS[Mirror(file)].kind # "partial"
            /\ Parent(Mirror(file)) \in outDirs

C5_Witness ==
    /\ result.kind = "stats"
    /\ result.stats.failed = 0
    /\ (InRoot \o <<"sub", "IMG001">>) \in DOMAIN inFS
    /\ (OutRoot \o <<"sub", "IMG001">>) \in DOMAIN outFS

\* C6: with a missing input root nothing is created under the output root,
\* no file is visited or counted, no stats are returned, and a run that is
\* not interrupted ends with status 2.
C6_MissingRoot ==
    ~inputExists =>
        /\ outDirs = {}
        /\ DOMAIN outFS = {}
        /\ visited = {}
        /\ stats.total_files = 0
        /\ result.kind # "stats"
        /\ pc = "summary" => result = None
        /\ (pc = "exit" /\ raised = "none") => (result = None /\ exitStatus = 2)

C6_Witness ==
    /\ ~inputExists
    /\ pc = "exit"
    /\ exitStatus = 2
    /\ result = None

\* the value the priority order of section 4.1 gives a tag, tag by tag
ClaimedValue(tag) ==
    CASE tag \in EmptySetTags -> ""
      [] tag \in {"PatientName", "PatientID"} -> pid
      [] tag = "PatientBirthDate" -> "19000101"
      [] tag = "PatientSex" -> "O"
      [] tag = "PatientAge" -> "000Y"
      [] tag \in DateTags -> "20000101"
      [] tag \in TimeTags -> "120000"
      [] tag \in {"InstitutionName", "ReferringPhysicianName", "PerformingPhysicianName",
                  "OperatorsName", "StudyDescription", "SeriesDescription"} -> "ANONYMIZED"
      [] tag = "PhysiciansOfRecord" -> pid

\* C7: every present policy tag whose assignment went through carries the
\* value of the first matching rule: empty set, then the identity pair,
\* then the fixed-value map, then the Description/Name heuristic, then the
\* supplied identifier.
C7_RulePriority ==
    pc \in {"rewrite", "persist"} =>
        \A k \in 1..(i - 1) :
            (TAGS_TO_ANONYMIZE[k] \in DOMAIN ds /\ TAGS_TO_ANONYMIZE[k] \notin failedTags)
                => ds[TAGS_TO_ANONYMIZE[k]] = ClaimedValue(TAGS_TO_ANONYMIZE[k])

C7_Witness ==
    /\ Rewritten
    /\ PolicyTags \subseteq DOMAIN ds
    /\ failedTags = {}
    /\ ds["PatientMotherBirthName"] = ""
    /\ ds["PhysiciansOfRecord"] = pid

\* C9 as stated: every present tag of the empty set is empty after the rewrite.
C9_EmptiedAlways ==
    Rewritten => \A tag \in EmptySetTags \cap DOMAIN ds : ds[tag] = ""

\* C9: every present tag of the empty set whose assignment did not raise
\* is empty after the rewrite, in the record and in the file saved from it.
C9_EmptiedUnlessFailed ==
    /\ Rewritten =>
         \A tag \in (EmptySetTags \cap DOMAIN ds) \ failedTags : ds[tag] = ""
    /\ (pc = "walk" /\ output_file \in DOMAIN outFS /\ outFS[output_file].kind = "dicom") =>
         \A tag \in (EmptySetTags \cap DOMAIN outFS[output_file].ds) \ failedTags :
            outFS[output_file].ds[tag] = ""

C9_Witness ==
    /\ Rewritten
    /\ EmptySetTags \subseteq DOMAIN ds
    /\ failedTags = {"PatientName"}
    /\ \A tag \in EmptySetTags : ds[tag] = "" /\ inFS[input_file].ds[tag] # ""

\* C10 as stated: every present date or time tag has its constant after the rewrite.
C10_FixedAlways ==
    Rewritten =>
        /\ "PatientBirthDate" \in DOMAIN ds => ds["PatientBirthDate"] = "19000101"
        /\ \A tag \in DateTags \cap DOMAIN ds : ds[tag] = "20000101"
        /\ \A tag \in TimeTags \cap DOMAIN ds : ds[tag] = "120000"

\* C10: every present date or time tag whose assignment did not raise has
\* its constant after the rewrite: 19000101 for the birth date, 20000101
\* for the four dates, 120000 for the four times.
C10_FixedUnlessFailed ==
    Rewritten =>
        /\ ("PatientBirthDate" \in DOMAIN ds \ failedTags) => ds["PatientBirthDate"] = "19000101"
        /\ \A tag \in (DateTags \cap DOMAIN ds) \ failedTags : ds[tag] = "20000101"
        /\ \A tag \in (TimeTags \cap DOMAIN ds) \ failedTags : ds[tag] = "120000"

C10_Witness ==
    /\ Rewritten
    /\ (DateTags \cup TimeTags \cup {"PatientBirthDate"}) \subseteq DOMAIN ds
    /\ failedTags = {"PatientID"}
    /\ ds["PatientBirthDate"] = "19000101"
    /\ ds["StudyDate"] = "20000101"
    /\ ds["ContentTime"] = "120000"
    /\ inFS[input_file].ds["StudyDate"] = "20240610"

\* the rewrite loop of modify_single_dcm has gone over every tag of ds
OldRewritten == pc \in {"old_persist", "old_save"}

IdentityTags == {"PatientName", "PatientID"}

DigitValue(c) ==
    CASE c = "0" -> 0 [] c = "1" -> 1 [] c = "2" -> 2 [] c = "3" -> 3 [] c = "4" -> 4
      [] c = "5" -> 5 [] c = "6" -> 6 [] c = "7" -> 7 [] c = "8" -> 8 [] c = "9" -> 9

RECURSIVE NumberOf(_)
NumberOf(cs) ==
    IF cs = <<>> THEN 0
    ELSE 10 * NumberOf(SubSeq(cs, 1, Len(cs) - 1)) + DigitValue(cs[Len(cs)])

UpperOrDigit ==
    {"A", "B", "C", "D", "E", "F", "G", "H", "I", "J", "K", "L", "M", "N", "O", "P", "Q",
     "R", "S", "T", "U", "V", "W", "X", "Y", "Z",
     "0", "1", "2", "3", "4", "5", "6", "7", "8", "9"}

\* id is <pre>_<YYYYMMDD>_<8 characters of A-Z0-9>, the date being now
WellFormedId(id, pre, now) ==
    LET n == Len(pre) IN
    /\ Len(id) = n + 18
    /\ SubSeq(id, 1, n) = pre
    /\ id[n + 1] = "_"
    /\ \A k \in (n + 2)..(n + 9) : id[k] \in {"0", "1", "2", "3", "4", "5", "6", "7", "8", "9"}
    /\ NumberOf(SubSeq(id, n + 2, n + 5)) = now.year
    /\ NumberOf(SubSeq(id, n + 6, n + 7)) = now.month
    /\ NumberOf(SubSeq(id, n + 8, n + 9)) = now.day
    /\ id[n + 10] = "_"
    /\ \A k \in (n + 11)..(n + 18) : id[k] \in UpperOrDigit

\* C8 as stated: PatientName and PatientID, whenever present, equal the
\* supplied identifier (fixed mode) or the generated one (randomized mode).
C8_IdentityAlways ==
    /\ Rewritten => \A tag \in IdentityTags \cap DOMAIN ds : ds[tag] = pid
    /\ OldRewritten => \A tag \in IdentityTags \cap DOMAIN ds : ds[tag] = generated_id

\* C8: PatientName and PatientID, when present and when their assignment
\* did not raise, equal the supplied identifier after the rewrite of
\* dicom_anonymizer.py; after the rewrite of old/anon.py they equal the one
\* identifier generated for this call, <prefix>_<YYYYMMDD>_<8 of A-Z0-9>.
C8_IdentityUnlessFailed ==
    /\ Rewritten => \A tag \in (IdentityTags \cap DOMAIN ds) \ failedTags : ds[tag] = pid
    /\ OldRewritten =>
         /\ WellFormedId(generated_id, prefix, today)
         /\ \A tag \in (IdentityTags \cap DOMAIN ds) \ failedTags : ds[tag] = generated_id

C8_Witness ==
    /\ pc = "old_save"
    /\ IdentityTags \subseteq DOMAIN ds
    /\ failedTags = {"PatientSex"}
    /\ ds["PatientName"] = generated_id
    /\ ds["PatientID"] = generated_id
    /\ generated_id # OldPrev
    /\ generated_id = <<"D", "I", "R", "_", "2", "0", "2", "4", "0", "6", "1", "0", "_",
                        "S", "3", "E", "P", "0", "B", "M", "X">>

\* the records an earlier call with the same identifier saved without any failure
SavedWith(patient_id) == {Rewrite(r, patient_id, {}) : r \in RichRecords}

ClaimedDicomLike(filename) ==
    CASE filename = "scan.dcm"     -> TRUE
      [] filename = "SCAN2.DCM"    -> TRUE
      [] filename = "IMG001"       -> TRUE
      [] filename = "notes.txt"    -> FALSE
      [] filename = "scan.dcm.bak" -> FALSE

\* C12: a file of the walk goes to the rewriter exactly when its name ends
\* with ".dcm" (in any letter case) or contains no "."; every other file goes
\* to the copy branch, and once copied its content stands unchanged at the
\* mirrored path.
C12_Classification ==
    /\ pc \in {"read", "copy"} =>
          (pc = "read" <=> ClaimedDicomLike(input_file[Len(input_file)]))
    /\ pc \in {"rewrite", "persist"} => ClaimedDicomLike(input_file[Len(input_file)])
    /\ (pc = "walk" /\ input_file # NoPath
          /\ ~ClaimedDicomLike(input_file[Len(input_file)])) =>
          /\ output_file = Mirror(input_file)
          /\ output_file \in DOMAIN outFS
          /\ outFS[output_file] = inFS[input_file]

\* SCAN2.DCM was rewritten and scan.dcm.bak, a data-set by content, was copied as is
C12_Witness ==
    /\ pc = "walk"
    /\ input_file = InRoot \o <<"scan.dcm.bak">>
    /\ inFS[input_file].kind = "dicom"
    /\ Mirror(input_file) \in DOMAIN outFS
    /\ outFS[Mirror(input_file)] = inFS[input_file]
    /\ Mirror(InRoot \o <<"SCAN2.DCM">>) \in DOMAIN outFS
    /\ outFS[Mirror(InRoot \o <<"SCAN2.DCM">>)].kind = "dicom"
    /\ outFS[Mirror(InRoot \o <<"SCAN2.DCM">>)].ds["PatientID"] = pid

\* C13: the rewrite never adds an attribute: during and after the loop the
\* attributes present in the record are those present in the record read, so
\* a policy-table attribute absent before is absent after, in the saved file too.
C13_NoAttributeAdded ==
    /\ pc \in {"rewrite", "persist"} =>
          /\ DOMAIN ds = DOMAIN inFS[input_file].ds
          /\ \A tag \in PolicyTags :
                tag \notin DOMAIN inFS[input_file].ds => tag \notin DOMAIN ds
    /\ \A file \in visited :
          (Mirror(file) \in DOMAIN outFS /\ outFS[Mirror(file)].kind = "dicom"
             /\ inFS[file].kind = "dicom")
             => DOMAIN outFS[Mirror(file)].ds = DOMAIN inFS[file].ds

\* a record with only three attributes went through the whole loop and was saved
C13_Witness ==
    /\ pc = "walk"
    /\ returned = "True"
    /\ DOMAIN inFS[input_file].ds = {"PatientName", "PatientID", "StudyInstanceUID"}
    /\ outFS[output_file].ds["PatientName"] = pid
    /\ "PatientBirthDate" \notin DOMAIN outFS[output_file].ds

\* C14: anonymize_dicom_file returns False exactly when reading the source
\* raised or the persist step (makedirs, save_as) raised; a call in which only
\* attribute assignments raised returns True, with the record saved.
C14_ReturnValue ==
    /\ returned = "False" <=> failure \in {"read", "makedirs", "save"}
    /\ returned = "True" =>
          /\ failure = "none"
          /\ output_file \in DOMAIN outFS
          /\ outFS[output_file] = Dicom(ds)
    /\ (pc = "walk" /\ input_file # NoPath
          /\ ClaimedDicomLike(input_file[Len(input_file)])) => returned # "none"

\* one assignment raised, and the call still returned True
C14_Witness ==
    /\ pc = "walk"
    /\ returned = "True"
    /\ failedTags = {"PatientBirthDate"}
    /\ stats.anonymized = 1
    /\ stats.failed = 0

\* C15: a KeyboardInterrupt delivered between files or while a file is read,
\* rewritten, saved or copied ends the run with status 130: the step that
\* delivers it counts no per-file failure and returns nothing from the call,
\* leaves every output file written so far as it is, and no step follows it.
C15_InterruptEndsTheRun ==
    /\ [](interrupted =>
            /\ pc = "exit"
            /\ exitStatus = 130
            /\ raised = "KeyboardInterrupt")
    /\ [][~interrupted]_vars
    /\ [][interrupted' =>
             /\ stats' = stats
             /\ visited' = visited
             /\ returned' = returned
             /\ \A p \in DOMAIN outFS :
                   p \in DOMAIN outFS' /\ outFS'[p] = outFS[p]]_vars

\* interrupted while the second file was being saved: the first output stands,
\* the third file was never visited
C15_Witness ==
    /\ interrupted
    /\ exitStatus = 130
    /\ Cardinality(visited) = 2
    /\ Cardinality(DOMAIN inFS) = 3
    /\ stats.anonymized = 1
    /\ output_file \in DOMAIN outFS
    /\ outFS[output_file] = Partial
    /\ \E p \in DOMAIN outFS : outFS[p].kind = "dicom"

\* C16 as stated: every invocation of anonymize_dicom_file, once it has
\* returned, has written one output file at the destination path
C16_ExactlyOneAlways ==
    returned # "none" => output_file \in DOMAIN outFS

\* C16: an invocation of anonymize_dicom_file writes at the destination path
\* outputRoot + relativePath and nowhere else, the whole record when it returns
\* True and at most a truncated file when it does not; every output path
\* belongs to one visited input file, and no step writes a path again.
C16_OnlyTheDestination ==
    /\ [](pc \in {"read", "rewrite", "persist"} => output_file = Mirror(input_file))
    /\ [](returned = "True" =>
             /\ output_file \in DOMAIN outFS
             /\ outFS[output_file] = Dicom(ds))
    /\ [](returned = "False" =>
             (output_file \in DOMAIN outFS => outFS[output_file] = Partial))
    /\ [](/\ \A p \in DOMAIN outFS : \E file \in visited : p = Mirror(file)
          /\ \A f \in visited : \A g \in visited : Mirror(f) = Mirror(g) => f = g)
    /\ [][(pc \in {"read", "rewrite", "persist"}) =>
             \A p \in DOMAIN outFS' : p = output_file \/ p \in DOMAIN outFS]_vars
    /\ [][\A p \in DOMAIN outFS :
             p \in DOMAIN outFS' /\ outFS'[p] = outFS[p]]_vars

\* two files of one name, in two folders, were both rewritten to their own paths
C16_Witness ==
    /\ pc = "walk"
    /\ returned = "True"
    /\ stats.anonymized = 2
    /\ Mirror(InRoot \o <<"SCAN2.DCM">>) \in DOMAIN outFS
    /\ Mirror(InRoot \o <<"sub", "SCAN2.DCM">>) \in DOMAIN outFS
    /\ outFS[Mirror(InRoot \o <<"SCAN2.DCM">>)].kind = "dicom"
    /\ outFS[Mirror(InRoot \o <<"sub", "SCAN2.DCM">>)].kind = "dicom"

\* the backup path holds a whole copy
BackedUp ==
    /\ BackupPath(file_path) \in DOMAIN fs
    /\ fs[BackupPath(file_path)].kind # "partial"

\* C17: in modify_single_dcm of old/anon.py, a step changes the original file
\* only when <file>.backup already holds the content the file has before that
\* step and a tag was modified; when no tag was modified or the backup copy
\* fails, the step that ends the call leaves the file as it was, and the call
\* returns False.
C17_BackupBeforeOverwrite ==
    /\ [][(file_path \in DOMAIN fs /\ fs'[file_path] # fs[file_path]) =>
             /\ modified
             /\ BackedUp
             /\ fs[BackupPath(file_path)] = fs[file_path]]_vars
    /\ [][(pc = "old_persist" /\ pc' = "old_done") =>
             /\ ~modified \/ ~BackedUp'
             /\ fs'[file_path] = fs[file_path]
             /\ ret' = "False"]_vars
    /\ []((pc = "old_done" /\ (~modified \/ ~BackedUp)) => ret = "False")

\* the record was saved over the original while the backup holds what was read
C17_Witness ==
    /\ pc = "old_done"
    /\ ret = "True"
    /\ BackedUp
    /\ fs[BackupPath(file_path)].ds["PatientID"] = OldPrev
    /\ fs[file_path].kind = "dicom"
    /\ fs[file_path].ds["PatientID"] = generated_id
    /\ generated_id # OldPrev
====
